---- MODULE Spec2Model ----
(***************************************************************************)
(* Model of lighthouse-core/audits/byte-efficiency/total-byte-weight.js:   *)
(* the TotalByteWeight audit.  audit() requests the network records and    *)
(* the network throughput, joins both requests with Promise.all and, in    *)
(* the fulfilment callback, filters, sums, ranks and scores the records.   *)
(*                                                                         *)
(* JavaScript values are tagged: a number n is Num(n), the other values    *)
(* the code can compute with are NaN and Undefined.                        *)
(***************************************************************************)
EXTENDS Integers, Sequences, FiniteSets, TLC

VARIABLES
    pc,            \* "idle" before audit() is called, "called" after
    options,       \* context.options of the call: scorePODR, scoreMedian
    calls,         \* how often each artifact request has been issued
    requests,      \* state of the two request promises, by Promise.all index
    settled,       \* indices of the requests in the order they settled
    all,           \* the Promise.all promise: state, values, remaining, reason
    outcome        \* the promise audit() returns: state, result, reason

vars == <<pc, options, calls, requests, settled, all, outcome>>

----------------------------------------------------------------------------
(* Bounds of the model *)

\* free records of a list (each drawn from every record kind)
MaxLen == 2
\* length of the run of equal passing records that takes a list past the cut
PadLen == 11

----------------------------------------------------------------------------
(* JavaScript values *)

Num(n) == [t |-> "number", v |-> n]
NaN == [t |-> "NaN"]
Undefined == [t |-> "undefined"]
Arr(s) == [t |-> "array", v |-> s]

IsNum(x) == x.t = "number"
IsArray(x) == x.t = "array"

\* a + b on numbers; undefined converts to NaN and NaN is absorbing
JSAdd(a, b) == IF IsNum(a) /\ IsNum(b) THEN Num(a.v + b.v) ELSE NaN

\* a - b, likewise
JSSub(a, b) == IF IsNum(a) /\ IsNum(b) THEN Num(a.v - b.v) ELSE NaN

\* a > b: false whenever an operand converts to NaN
JSGreater(a, b) == IsNum(a) /\ IsNum(b) /\ a.v > b.v

----------------------------------------------------------------------------
(* Program constants *)

BUNDLE_SIZE_THRESHOLD == 170 * 1024

defaultOptions == [scorePODR |-> 2500 * 1024, scoreMedian |-> 4000 * 1024]

\* the cut of results.slice(0, 10)
SliceEnd == 10

\* WebInspector.resourceTypes.Script
Script == "script"

----------------------------------------------------------------------------
(* Collaborators of the audit that live outside this file *)

\* ByteEfficiencyAudit.bytesToMs: bytes / throughput, kept exact as a ratio;
\* a throughput of zero or none gives the placeholder 0
bytesToMs(bytes, networkThroughput) ==
    IF ~IsNum(networkThroughput) \/ networkThroughput.v = 0 THEN Num(0)
    ELSE IF ~IsNum(bytes) THEN NaN
    ELSE [t |-> "ratio", n |-> bytes.v, d |-> networkThroughput.v]

\* ByteEfficiencyAudit.computeLogNormalScore: a function of its three
\* arguments and of nothing else, kept as the term of its application
computeLogNormalScore(measuredValue, diminishingReturnsValue, medianValue) ==
    [t |-> "logNormalScore", measured |-> measuredValue,
     podr |-> diminishingReturnsValue, median |-> medianValue]

\* Util.formatBytesToKB inside the display string, kept as the term of its
\* application
displayValueOf(totalBytes) ==
    [t |-> "Total size was", formatBytesToKB |-> totalBytes, granularity |-> 1]

\* ByteEfficiencyAudit.makeTableDetails: the headings with the rows given
makeTableDetails(headings, results) ==
    [type |-> "table", headings |-> headings, items |-> results]

----------------------------------------------------------------------------
(* TotalByteWeight *)

hasExceededJSBundleSize_Inclusive(record) ==
    /\ record.resourceType = Script
    /\ ~JSGreater(Num(BUNDLE_SIZE_THRESHOLD), record.transferSize)

hasExceededJSBundleSize(record) ==
    /\ record.resourceType = Script
    /\ JSGreater(record.transferSize, Num(BUNDLE_SIZE_THRESHOLD))

\* the early return of the forEach callback
excluded(record) == record.scheme = "data" \/ ~record.finished

resultOf_InlineDivision(record, networkThroughput) ==
    [url |-> record.url,
     totalBytes |-> record.transferSize,
     totalMs |-> IF IsNum(record.transferSize) /\ IsNum(networkThroughput)
                    /\ networkThroughput.v # 0
                 THEN [t |-> "ratio", n |-> record.transferSize.v,
                       d |-> networkThroughput.v]
                 ELSE NaN,
     flagged |-> hasExceededJSBundleSize(record)]

resultOf(record, networkThroughput) ==
    [url |-> record.url,
     totalBytes |-> record.transferSize,
     totalMs |-> bytesToMs(record.transferSize, networkThroughput),
     flagged |-> hasExceededJSBundleSize(record)]

accumulate_Assign(totalBytes, result) == result.totalBytes

\* totalBytes += result.totalBytes
accumulate(totalBytes, result) == JSAdd(totalBytes, result.totalBytes)

\* networkRecords.forEach(...), from record i on, with the totals so far
RECURSIVE forEachRecord(_, _, _, _)
forEachRecord(networkRecords, networkThroughput, i, acc) ==
    IF i > Len(networkRecords) THEN acc
    ELSE IF excluded(networkRecords[i])
    THEN forEachRecord(networkRecords, networkThroughput, i + 1, acc)
    ELSE LET result == resultOf(networkRecords[i], networkThroughput)
         IN forEachRecord(networkRecords, networkThroughput, i + 1,
                [totalBytes |-> accumulate(acc.totalBytes, result),
                 results |-> Append(acc.results, result)])

compareFn_Ascending(itemA, itemB) == JSSub(itemA.totalBytes, itemB.totalBytes)

msKey(item) == IF item.totalMs.t = "ratio" THEN Num(item.totalMs.n) ELSE item.totalMs

compareFn_ByMs(itemA, itemB) == JSSub(msKey(itemB), msKey(itemA))

\* (itemA, itemB) => itemB.totalBytes - itemA.totalBytes
compareFn(itemA, itemB) == JSSub(itemB.totalBytes, itemA.totalBytes)

\* Array.prototype.sort's SortCompare: a NaN from the comparator counts as +0
SortCompare(x, y) ==
    LET v == compareFn(x, y) IN IF IsNum(v) THEN v.v ELSE 0

\* whether the comparator is a consistent comparison over the items of s;
\* the order sort leaves is defined by the language only if it is
ConsistentComparator(s) ==
    LET S == {[totalBytes |-> s[i].totalBytes, totalMs |-> s[i].totalMs] :
                  i \in 1..Len(s)}
    IN \A a, b, c \in S :
         /\ (SortCompare(a, b) = 0 /\ SortCompare(b, c) = 0) => SortCompare(a, c) = 0
         /\ (SortCompare(a, b) < 0 /\ SortCompare(b, c) < 0) => SortCompare(a, c) < 0
         /\ (SortCompare(a, b) > 0 /\ SortCompare(b, c) > 0) => SortCompare(a, c) > 0
         /\ (SortCompare(a, b) < 0) <=> (SortCompare(b, a) > 0)

RECURSIVE Insert(_, _)
Insert(s, x) ==
    IF s = <<>> THEN <<x>>
    ELSE IF SortCompare(Head(s), x) <= 0 THEN <<Head(s)>> \o Insert(Tail(s), x)
    ELSE <<x>> \o s

\* the one order a stable sort gives under a consistent comparator
RECURSIVE StableSort(_)
StableSort(s) ==
    IF s = <<>> THEN <<>>
    ELSE Insert(StableSort(SubSeq(s, 1, Len(s) - 1)), s[Len(s)])

\* results.sort(compareFn): the stable order (ECMAScript 2019, 22.1.3.27) when
\* the comparator is consistent, otherwise any order of the same items
SortOutcomes(s) ==
    IF ConsistentComparator(s) THEN {StableSort(s)}
    ELSE {[i \in 1..Len(s) |-> s[p[i]]] : p \in Permutations(1..Len(s))}

\* .slice(0, 10)
slice(s) == SubSeq(s, 1, IF Len(s) < SliceEnd THEN Len(s) ELSE SliceEnd)

completedRequests_AfterSlice(results) == Len(slice(results))

\* const totalCompletedRequests = results.length
completedRequests(results) == Len(results)

headings ==
    <<[key |-> "url", itemType |-> "url", text |-> "URL"],
      [key |-> "totalBytes", itemType |-> "bytes", displayUnit |-> "kb",
       granularity |-> 1, text |-> "Total Size"],
      [key |-> "totalMs", itemType |-> "ms", text |-> "Transfer Time"]>>

\* the callback of .then(...): every value it can return
auditThen(networkRecords, networkThroughput, opts) ==
    LET acc == forEachRecord(networkRecords, networkThroughput, 1,
                             [totalBytes |-> Num(0), results |-> <<>>])
        totalCompletedRequests == completedRequests(acc.results)
    IN {[score |-> computeLogNormalScore(acc.totalBytes, opts.scorePODR,
                                         opts.scoreMedian),
         rawValue |-> acc.totalBytes,
         displayValue |-> displayValueOf(acc.totalBytes),
         extendedInfo |-> [value |->
             [results |-> slice(sorted),
              totalCompletedRequests |-> totalCompletedRequests]],
         details |-> makeTableDetails(headings, slice(sorted))]
        : sorted \in SortOutcomes(acc.results)}

----------------------------------------------------------------------------
(* What the collaborators can deliver *)

Schemes == {"http", "data"}
ResourceTypes == {Script, "image"}
Sizes == {Num(0), Num(BUNDLE_SIZE_THRESHOLD), Num(BUNDLE_SIZE_THRESHOLD + 1)}

\* network records without their urls: transferSize is a non-negative integer.
\* Every kind that passes the filter, and for each way of failing it a script
\* above the bundle threshold (the filter reads scheme and finished only)
RecordKinds ==
    {k \in [scheme : Schemes, finished : BOOLEAN, transferSize : Sizes,
            resourceType : ResourceTypes] :
        \/ k.scheme = "http" /\ k.finished
        \/ k.resourceType = Script /\ k.transferSize = Num(BUNDLE_SIZE_THRESHOLD + 1)}

\* the same kinds, and those without a transferSize
MalformedKinds ==
    RecordKinds \cup
    [scheme : Schemes, finished : BOOLEAN, transferSize : {Undefined},
     resourceType : ResourceTypes]

\* a passing script of exactly the bundle threshold
PadRecord ==
    [scheme |-> "http", finished |-> TRUE,
     transferSize |-> Num(BUNDLE_SIZE_THRESHOLD), resourceType |-> Script]

SeqsUpTo(S, n) == UNION {[1..k -> S] : k \in 0..n}

Pad(count) == [i \in 1..count |-> PadRecord]

\* the records of kinds, each with its position in the list as its url
WithUrls(kinds) ==
    [i \in 1..Len(kinds) |->
        [url |-> i, scheme |-> kinds[i].scheme, finished |-> kinds[i].finished,
         transferSize |-> kinds[i].transferSize,
         resourceType |-> kinds[i].resourceType]]

\* up to MaxLen free records, with a run of 0, SliceEnd - 1 or PadLen equal
\* passing records put in at any place
RecordLists ==
    UNION {{WithUrls(SubSeq(free, 1, at) \o Pad(count)
                     \o SubSeq(free, at + 1, Len(free)))
            : at \in 0..Len(free), count \in {0, SliceEnd - 1, PadLen}}
           : free \in SeqsUpTo(RecordKinds, MaxLen)}

\* short lists in which some record has no transferSize
MalformedLists ==
    {WithUrls(kinds) : kinds \in
        {m \in SeqsUpTo(MalformedKinds, MaxLen) :
            \E i \in 1..Len(m) : m[i].transferSize = Undefined}}

\* bytes per millisecond; Undefined when the estimator has none to give
Throughputs == {Undefined, Num(0), Num(2)}

OptionSets == {defaultOptions, [scorePODR |-> 1000, scoreMedian |-> 2000]}

\* Promise.all indices of the two requests
RecordsReq == 1
ThroughputReq == 2
Requests == {RecordsReq, ThroughputReq}

\* the failure each collaborator can end in
Failure(i) == IF i = RecordsReq THEN "RecordsError" ELSE "ThroughputError"

----------------------------------------------------------------------------
(* Promise.all and the promise audit() returns *)

resolveElement_Race(a, i, value) ==
    [a EXCEPT !.values = [@ EXCEPT ![i] = value],
              !.remaining = @ - 1,
              !.state = IF @ = "pending" THEN "fulfilled" ELSE @]

\* Promise.all's resolve element function for index i
resolveElement(a, i, value) ==
    [a EXCEPT !.values = [@ EXCEPT ![i] = value],
              !.remaining = @ - 1,
              !.state = IF @ = "pending" /\ a.remaining = 1 THEN "fulfilled" ELSE @]

\* Promise.all's reject function: the first reason given settles it
rejectElement(a, reason) ==
    IF a.state = "pending"
    THEN [state |-> "rejected", values |-> a.values, remaining |-> a.remaining,
          reason |-> reason]
    ELSE a

passThrough_Fallback(reason) ==
    [state |-> "fulfilled",
     value |-> [score |-> computeLogNormalScore(Num(0), options.scorePODR,
                                                options.scoreMedian),
                rawValue |-> Num(0),
                displayValue |-> displayValueOf(Num(0)),
                extendedInfo |-> [value |->
                    [results |-> <<>>, totalCompletedRequests |-> 0]],
                details |-> makeTableDetails(headings, <<>>)]]

\* .then(onFulfilled) has no rejection handler: the reason passes through
passThrough(reason) == [state |-> "rejected", reason |-> reason]

----------------------------------------------------------------------------
(* Actions *)

Init ==
    /\ pc = "idle"
    /\ options \in OptionSets
    /\ calls = [i \in Requests |-> 0]
    /\ requests = [i \in Requests |-> [state |-> "idle"]]
    /\ settled = <<>>
    /\ all = [state |-> "none"]
    /\ outcome = [state |-> "none"]

\* audit(artifacts, context) up to its return: both requests are issued,
\* Promise.all joins them and .then() derives the promise returned
AuditCall ==
    /\ pc = "idle"
    /\ pc' = "called"
    /\ calls' = [i \in Requests |-> calls[i] + 1]
    /\ requests' = [i \in Requests |-> [state |-> "pending"]]
    /\ all' = [state |-> "pending", values |-> <<Undefined, Undefined>>,
               remaining |-> 2]
    /\ outcome' = [state |-> "pending"]
    /\ UNCHANGED <<options, settled>>

Fulfil(i, value) ==
    /\ requests' = [requests EXCEPT ![i] = [state |-> "fulfilled", value |-> value]]
    /\ settled' = Append(settled, i)
    /\ all' = resolveElement(all, i, value)
    /\ UNCHANGED <<pc, options, calls, outcome>>

\* artifacts.requestNetworkRecords(devtoolsLogs) fulfils
RecordsFulfil ==
    /\ requests[RecordsReq].state = "pending"
    /\ \E recs \in RecordLists : Fulfil(RecordsReq, Arr(recs))

\* the same, with a record that lacks its transferSize
RecordsFulfilMalformed ==
    /\ requests[RecordsReq].state = "pending"
    /\ \E recs \in MalformedLists : Fulfil(RecordsReq, Arr(recs))

\* artifacts.requestNetworkThroughput(devtoolsLogs) fulfils
ThroughputFulfil ==
    /\ requests[ThroughputReq].state = "pending"
    /\ \E tp \in Throughputs : Fulfil(ThroughputReq, tp)

\* request i rejects; nothing issues it again
Reject(i, reason) ==
    /\ pc = "called"
    /\ requests[i].state = "pending"
    /\ requests' = [requests EXCEPT ![i] = [state |-> "rejected", reason |-> reason]]
    /\ all' = rejectElement(all, reason)
    /\ settled' = Append(settled, i)
    /\ UNCHANGED <<pc, options, calls, outcome>>

RecordsReject == Reject(RecordsReq, Failure(RecordsReq))

ThroughputReject == Reject(ThroughputReq, Failure(ThroughputReq))

\* the reaction job of .then() once Promise.all has fulfilled: the callback
\* runs on [networkRecords, networkThroughput]; forEach on anything but an
\* array throws, which rejects the promise returned
ThenFulfilled ==
    /\ all.state = "fulfilled"
    /\ outcome.state = "pending"
    /\ LET networkRecords == all.values[RecordsReq]
           networkThroughput == all.values[ThroughputReq]
       IN IF IsArray(networkRecords)
          THEN \E result \in auditThen(networkRecords.v, networkThroughput, options) :
                  outcome' = [state |-> "fulfilled", value |-> result]
          ELSE outcome' = [state |-> "rejected", reason |-> "TypeError"]
    /\ UNCHANGED <<pc, options, calls, requests, settled, all>>

\* the reaction job of .then() once Promise.all has rejected
ThenRejected ==
    /\ all.state = "rejected"
    /\ outcome.state = "pending"
    /\ outcome' = passThrough(all.reason)
    /\ UNCHANGED <<pc, options, calls, requests, settled, all>>

Next ==
    \/ AuditCall
    \/ RecordsFulfil
    \/ ThroughputFulfil
    \/ RecordsReject
    \/ ThroughputReject
    \/ ThenFulfilled
    \/ ThenRejected

\* the record provider keeps to the data model
Spec == Init /\ [][Next]_vars

NextMalformed == Next \/ RecordsFulfilMalformed

\* the record provider may also deliver records without a transferSize
SpecMalformed == Init /\ [][NextMalformed]_vars

----------------------------------------------------------------------------
(* Vocabulary of the properties *)

Delivered == outcome.state = "fulfilled"

\* what the two collaborators delivered (once their requests have fulfilled)
DeliveredRecords == requests[RecordsReq].value.v
DeliveredThroughput == requests[ThroughputReq].value

Shown == outcome.value.extendedInfo.value.results
Counted == outcome.value.extendedInfo.value.totalCompletedRequests

\* positions of the records with scheme # 'data' and finished = true
Passing(recs) ==
    {i \in 1..Len(recs) : recs[i].scheme # "data" /\ recs[i].finished = TRUE}

\* transferSize in bytes, a missing one counted as 0
BytesOf(record) == IF IsNum(record.transferSize) THEN record.transferSize.v ELSE 0

RECURSIVE SumBytes(_, _)
SumBytes(recs, S) ==
    IF S = {} THEN 0
    ELSE LET i == CHOOSE j \in S : TRUE
         IN BytesOf(recs[i]) + SumBytes(recs, S \ {i})

ShownUrls == {Shown[i].url : i \in 1..Len(Shown)}

RECURSIVE SumShown(_)
SumShown(n) == IF n = 0 THEN 0 ELSE Shown[n].totalBytes.v + SumShown(n - 1)

----------------------------------------------------------------------------
(* C1 *)

\* C1: rawValue is the sum of transferSize over all records with
\* scheme # 'data' and finished = true, those cut from the top 10 included.
C1_RawValueSumsAllPassing ==
    Delivered =>
        outcome.value.rawValue =
            Num(SumBytes(DeliveredRecords, Passing(DeliveredRecords)))

\* more than 10 records pass and the ones cut carry bytes of the total
C1_Witness ==
    /\ Delivered
    /\ Cardinality(Passing(DeliveredRecords)) > 10
    /\ IsNum(outcome.value.rawValue)
    /\ outcome.value.rawValue.v > SumShown(Len(Shown))
    /\ \E i \in 1..Len(DeliveredRecords) : i \notin Passing(DeliveredRecords)

----------------------------------------------------------------------------
(* C2 *)

\* C2: the results list has length min(10, totalCompletedRequests), is ordered
\* by totalBytes descending, holds the passing records with the largest
\* totalBytes (no passing record left out is larger than a listed one), and
\* keeps entries of equal totalBytes in their encounter order.
C2_TopTenDescendingStable ==
    Delivered =>
        /\ Len(Shown) = (IF Counted < 10 THEN Counted ELSE 10)
        /\ \A i, j \in 1..Len(Shown) :
              i < j => /\ Shown[i].totalBytes.v >= Shown[j].totalBytes.v
                       /\ Shown[i].totalBytes = Shown[j].totalBytes
                            => Shown[i].url < Shown[j].url
        /\ \A i \in 1..Len(Shown) :
              /\ Shown[i].url \in Passing(DeliveredRecords)
              /\ Shown[i].totalBytes = DeliveredRecords[Shown[i].url].transferSize
        /\ \A p \in Passing(DeliveredRecords) \ ShownUrls :
              \A i \in 1..Len(Shown) :
                  DeliveredRecords[p].transferSize.v <= Shown[i].totalBytes.v

\* records are cut, the list is out of encounter order, holds a tie and a
\* strict descent, and a record that came before a listed one is left out
C2_Witness ==
    /\ Delivered
    /\ Counted > 10
    /\ \E i, j \in 1..Len(Shown) :
          i < j /\ Shown[i].totalBytes = Shown[j].totalBytes
    /\ \E i, j \in 1..Len(Shown) :
          i < j /\ Shown[i].totalBytes.v > Shown[j].totalBytes.v
    /\ \E i, j \in 1..Len(Shown) : i < j /\ Shown[i].url > Shown[j].url
    /\ \E p \in Passing(DeliveredRecords) \ ShownUrls :
          \E i \in 1..Len(Shown) : p < Shown[i].url

----------------------------------------------------------------------------
(* C3 *)

\* C3: totalCompletedRequests is the number of records with scheme # 'data'
\* and finished = true, counted before the cut to 10; a record failing the
\* filter is never counted and never listed.
C3_CountsPassingBeforeCut ==
    Delivered =>
        /\ Counted = Cardinality(Passing(DeliveredRecords))
        /\ ShownUrls \subseteq Passing(DeliveredRecords)

\* more records pass than are listed, beside a data record and an
\* unfinished one
C3_Witness ==
    /\ Delivered
    /\ Counted > Len(Shown)
    /\ \E i \in 1..Len(DeliveredRecords) : DeliveredRecords[i].scheme = "data"
    /\ \E i \in 1..Len(DeliveredRecords) : ~DeliveredRecords[i].finished

----------------------------------------------------------------------------
(* C4 *)

\* C4: a listed record is flagged iff it is a script of more than 174080
\* bytes; a script of exactly 174080 bytes is not, nor a non-script of any size.
C4_FlaggedIffLargeScript ==
    Delivered =>
        \A i \in 1..Len(Shown) :
            LET record == DeliveredRecords[Shown[i].url]
            IN Shown[i].flagged <=>
                  (record.resourceType = "script" /\ record.transferSize.v > 174080)

\* a flagged script of 174081 bytes beside an unflagged one of 174080
C4_Witness ==
    /\ Delivered
    /\ \E i, j \in 1..Len(Shown) :
          /\ Shown[i].flagged /\ Shown[i].totalBytes = Num(174081)
          /\ ~Shown[j].flagged /\ Shown[j].totalBytes = Num(174080)
          /\ DeliveredRecords[Shown[j].url].resourceType = "script"
    /\ \E k \in 1..Len(Shown) :
          /\ ~Shown[k].flagged /\ Shown[k].totalBytes = Num(174081)
          /\ DeliveredRecords[Shown[k].url].resourceType # "script"

----------------------------------------------------------------------------
(* C5 *)

Failed(i) == requests[i].state = "rejected"

\* the request that failed first
FirstFailed == settled[CHOOSE k \in 1..Len(settled) :
                   /\ Failed(settled[k])
                   /\ \A m \in 1..(k - 1) : ~Failed(settled[m])]

\* C5: once a request has failed no result is delivered, the rejection is
\* on its way to the caller or has reached it with the reason of the request
\* that failed (first), and no request is issued a second time.
C5_FailurePropagatesUnchanged ==
    /\ \A i \in Requests : calls[i] <= 1
    /\ (\E i \in Requests : Failed(i)) =>
          /\ ~Delivered
          /\ all.state = "rejected" /\ all.reason = requests[FirstFailed].reason
          /\ outcome.state \in {"pending", "rejected"}
    /\ outcome.state = "rejected" =>
          /\ \E i \in Requests : Failed(i)
          /\ outcome.reason = requests[FirstFailed].reason

\* the throughput request failed after the records had come, and the caller
\* holds that failure
C5_Witness ==
    /\ outcome.state = "rejected"
    /\ settled = <<RecordsReq, ThroughputReq>>
    /\ requests[RecordsReq].state = "fulfilled"
    /\ Len(requests[RecordsReq].value.v) > 0
    /\ outcome.reason = "ThroughputError"

----------------------------------------------------------------------------
(* C6 *)

\* C6: both requests are issued in the one step of the call; a result is
\* delivered only after both have fulfilled, and it is the result of the two
\* values delivered, whichever came first.
C6_JoinThenAggregate ==
    /\ pc = "called" <=> \A i \in Requests : calls[i] = 1
    /\ pc = "idle" <=> \A i \in Requests : calls[i] = 0
    /\ Delivered =>
          /\ \A i \in Requests : requests[i].state = "fulfilled"
          /\ outcome.value \in
                auditThen(DeliveredRecords, DeliveredThroughput, options)
    /\ (\E i \in Requests : requests[i].state \in {"idle", "pending"}) =>
          ~Delivered

\* the throughput came before the records and the result is out
C6_Witness ==
    /\ Delivered
    /\ settled = <<ThroughputReq, RecordsReq>>
    /\ Len(Shown) > 1
    /\ IsNum(DeliveredThroughput) /\ DeliveredThroughput.v > 0

----------------------------------------------------------------------------
(* C7 *)

----------------------------------------------------------------------------
(* C8 *)

WithoutMs(item) ==
    [url |-> item.url, totalBytes |-> item.totalBytes, flagged |-> item.flagged]

\* C8: a run on the same records and options under any other throughput
\* gives the same score, rawValue, totalCompletedRequests and result order,
\* and differs at most in the totalMs fields.
C8_ThroughputOnlyInTotalMs ==
    Delivered =>
        \A tp \in Throughputs :
            \A other \in auditThen(DeliveredRecords, tp, options) :
                LET shown2 == other.extendedInfo.value.results
                IN /\ other.score = outcome.value.score
                   /\ other.rawValue = outcome.value.rawValue
                   /\ other.extendedInfo.value.totalCompletedRequests = Counted
                   /\ Len(shown2) = Len(Shown)
                   /\ \A i \in 1..Len(Shown) :
                         WithoutMs(shown2[i]) = WithoutMs(Shown[i])

\* a result under a throughput of 2 whose order is not the encounter order
\* and whose totalMs differ from those under a throughput of zero
C8_Witness ==
    /\ Delivered
    /\ DeliveredThroughput = Num(2)
    /\ \E i, j \in 1..Len(Shown) : i < j /\ Shown[i].url > Shown[j].url
    /\ \E other \in auditThen(DeliveredRecords, Num(0), options) :
          other.extendedInfo.value.results # Shown

----------------------------------------------------------------------------
(* C10 *)

\* C10: rawValue is a non-negative integer for every record list; a passing
\* record without transferSize counts as 0 bytes: it adds 0 to rawValue, is
\* not flagged and leaves the other results in descending order.
C10_MissingSizeCountsAsZero ==
    Delivered =>
        /\ IsNum(outcome.value.rawValue)
        /\ outcome.value.rawValue =
              Num(SumBytes(DeliveredRecords, Passing(DeliveredRecords)))
        /\ \A i \in 1..Len(Shown) :
              ~IsNum(Shown[i].totalBytes) => ~Shown[i].flagged
        /\ \A i, j \in 1..Len(Shown) :
              (i < j /\ IsNum(Shown[i].totalBytes) /\ IsNum(Shown[j].totalBytes))
                  => Shown[i].totalBytes.v >= Shown[j].totalBytes.v

====
